---- MODULE Spec2Model ----
(***************************************************************************)
(* The relayer connection lifecycle of core/src/proxy: the supervisor loop *)
(* RelayerStage::start, one connection attempt (connect_auth_and_stream,   *)
(* start_consuming_relayer_packets), the consumer loop                     *)
(* consume_packet_stream with handle_relayer_packets, and the credential   *)
(* maintenance of proxy/auth.rs (generate_auth_tokens,                     *)
(* maybe_refresh_auth_tokens, refresh_access_token, get_validated_token).  *)
(*                                                                         *)
(* Time is counted in whole units.  The monotonic clock (Instant, the      *)
(* tokio intervals) and the wall clock (chrono::Utc) are two clocks, as in *)
(* the code.  An Option<T> is a sequence of length at most one.            *)
(***************************************************************************)
EXTENDS Integers, Sequences, FiniteSets, TLC

VARIABLES
    \* ---- RelayerStage::start
    exit,                  \* the shared AtomicBool; the code only loads it
    pc,                    \* where the relayer-stage task stands
    backoff_sec,           \* let mut backoff_sec
    ret,                   \* what the last connect_auth_and_stream returned
    streak,                \* history: consecutive Err returns since the last Ok (or startup)
    had_ok,                \* history: some attempt has returned Ok
    \* ---- configuration and the validator's identity
    trust_packets,         \* RelayerConfig::trust_packets
    cluster_id,            \* the identity cluster_info holds now
    \* ---- locals of one connection attempt
    keypair,               \* cluster_info.keypair() taken at connect time
    kp,                    \* the keypair the outstanding handshake signs with
    access_token,          \* Arc<Mutex<Token>>
    authorization,         \* the header AuthInterceptor put on the last relayer call
    refresh_token,         \* &mut Token
    heartbeat_event,       \* (tpu_socket, tpu_forward_socket)
    packet_stream,         \* messages of the subscription not yet taken
    relayer_stats,         \* RelayerStageStats
    num_full_refreshes,
    num_refresh_access_token,
    since_heartbeat,       \* last_heartbeat_ts.elapsed(), kept up to the threshold + 1
    heartbeat_timer,       \* time to the next heartbeat_check_interval tick (0: due)
    metrics_timer,         \* time to the next metrics_tick
    maintenance_timer,     \* time to the next maintenance_tick
    \* ---- the wall clock and the downstream channels
    utc,                   \* Utc::now().timestamp()
    heartbeat_tx,          \* Sender<HeartbeatEvent>: what the receiver has not taken yet
    packet_tx,             \* Sender<PacketBatch>
    verified_packet_tx,    \* Sender<(Vec<PacketBatch>, Option<SigverifyTracerPacketStats>)>
    rx_open,               \* the channels whose receiving end is still there
    fault                  \* how the surroundings disturb the connection in this run

supVars  == <<exit, pc, backoff_sec, ret, streak, had_ok>>
cfgVars  == <<trust_packets, cluster_id, fault>>
authVars == <<keypair, kp, access_token, authorization, refresh_token,
              num_full_refreshes, num_refresh_access_token>>
loopVars == <<heartbeat_event, packet_stream, relayer_stats, since_heartbeat,
              heartbeat_timer, metrics_timer, maintenance_timer>>
sinkVars == <<heartbeat_tx, packet_tx, verified_packet_tx, rx_open>>
vars     == <<supVars, cfgVars, authVars, loopVars, utc, sinkVars>>

----------------------------------------------------------------------------
(* Program constants and the bounds of the model *)

MAX_BACKOFF_S == 10
METRICS_TICK == 1
\* MAINTENANCE_TICK is 600 s in the code; the model counts it in units of 150 s.
MAINTENANCE_TICK == 4
\* Variant: the lookahead is the 25% alone, without the tick itself.
LookaheadWithoutTick == MAINTENANCE_TICK \div 4
AUTH_REFRESH_LOOKAHEAD == (MAINTENANCE_TICK * 5) \div 4

\* RelayerConfig: the two heartbeat durations, in time units.
ExpectedHeartbeatInterval == 1
OldestAllowedHeartbeat == 2

\* Width of the model's integers: i64 is -2^(W-1) .. 2^(W-1)-1, u64 is 0 .. 2^W-1.
IntWidth == 5
MaxStreak == 11        \* streak is counted up to here
MaxUtc == 3            \* the wall clock is followed up to here
MaxLifetime == 7       \* the longest lifetime the auth service gives a token
MaxBatchLen == 2       \* packets in one batch
MaxStat == 2           \* largest value of a counter of RelayerStageStats
MaxRotations == 2      \* rotations counted in one connection
MaxInFlight == 1       \* stream messages not yet taken
MaxQueue == 1          \* messages a downstream receiver has not yet taken
MaxSocket == 2         \* distinct socket addresses the relayer advertises

Min(a, b) == IF a <= b THEN a ELSE b
Max(a, b) == IF a >= b THEN a ELSE b

None == <<>>
Some(x) == <<x>>

Identities == {1, 2}

\* Token strings.  HeaderUnsafeValue stands for a string with a byte that may not
\* appear in an HTTP header value (a control character).
TokenValues == {"t1", "t2"}
HeaderUnsafeValue == "t\n"
I64 == -(2 ^ (IntWidth - 1)) .. (2 ^ (IntWidth - 1)) - 1
U64Modulus == 2 ^ IntWidth

\* `x as u64` of a signed integer.
AsU64(x) == x % U64Modulus

Token(v, e) == [value |-> v, expires_at_utc |-> e]
NoToken == Token("", None)

----------------------------------------------------------------------------
(* proxy/auth.rs: the pure parts *)

Ok(v) == [err |-> "", val |-> Some(v)]
Err(e) == [err |-> e, val |-> None]

\* Variant: a token without expiry passes.
GetValidatedTokenAnyExpiry(maybe_token) ==
    IF maybe_token = None THEN Err("BadAuthenticationToken") ELSE Ok(maybe_token[1])

\* get_validated_token: the candidate is an Option<Token>.
GetValidatedToken(maybe_token) ==
    IF maybe_token = None
    THEN Err("BadAuthenticationToken")
    ELSE IF maybe_token[1].expires_at_utc = None
         THEN Err("BadAuthenticationToken")
         ELSE Ok(maybe_token[1])

\* .expires_at_utc.as_ref().map(|ts| ts.seconds as u64).unwrap_or_default()
TokenExpiry(token) ==
    IF token.expires_at_utc = None THEN 0 ELSE AsU64(token.expires_at_utc[1])

\* Utc::now().timestamp() as u64
NowU64(t) == AsU64(t)

\* expiry.checked_sub(now).unwrap_or_default()
CheckedSubOrDefault(expiry, now) == IF expiry >= now THEN expiry - now ELSE 0

\* Variant: the access token is refreshed only strictly inside the lookahead.
ShouldRefreshAccessStrict(access, now, lookahead) ==
    CheckedSubOrDefault(TokenExpiry(access), now) < lookahead

ShouldRefreshAccess(access, now, lookahead) ==
    CheckedSubOrDefault(TokenExpiry(access), now) <= lookahead

ShouldGenerateNewTokens(refresh, now, lookahead) ==
    CheckedSubOrDefault(TokenExpiry(refresh), now) <= lookahead

\* Variant: the expiry of the refresh token is not looked at.
RefreshDecisionLightOnly(access, refresh, now, lookahead) ==
    IF ShouldRefreshAccess(access, now, lookahead) THEN "LightRefresh" ELSE "None"

\* The if / else-if of maybe_refresh_auth_tokens.
RefreshDecision(access, refresh, now, lookahead) ==
    IF ShouldGenerateNewTokens(refresh, now, lookahead) THEN "FullReauth"
    ELSE IF ShouldRefreshAccess(access, now, lookahead) THEN "LightRefresh"
    ELSE "None"

\* format!("Bearer {}", value).parse(): a header value holds no control character.
ParseHeaderValue(scheme, value) ==
    IF value = HeaderUnsafeValue THEN Err("InvalidMetadataValue")
    ELSE Ok([scheme |-> scheme, token |-> value])

\* Variant: the header is the token string without the scheme.
AuthInterceptorCallNoScheme(token) == ParseHeaderValue("", token.value)

\* AuthInterceptor::call: the header it inserts; the parse is unwrapped.
AuthInterceptorCall(token) == ParseHeaderValue("Bearer", token.value)

\* The end of generate_auth_tokens: both candidates of the response are validated,
\* the access token first.
ValidatedPair(resp) ==
    LET a == GetValidatedToken(resp.access_token)
        r == GetValidatedToken(resp.refresh_token)
    IN  IF a.err # "" THEN Err(a.err)
        ELSE IF r.err # "" THEN Err(r.err)
        ELSE Ok(<<a.val[1], r.val[1]>>)

----------------------------------------------------------------------------
(* RelayerStage::start: the supervisor loop *)

\* backoff_sec = min(backoff_sec + 1, MAX_BACKOFF_S)
\* Variant: the increment without the cap.
NextBackoffUncapped(b) == b + 1

NextBackoff(b) == Min(b + 1, MAX_BACKOFF_S)

\* let mut backoff_sec: u64 = 1
InitialBackoff == 1

\* backoff_sec = 0 in the Ok arm
\* Variant: a success leaves the backoff at its startup value.
BackoffNotReset == InitialBackoff

ResetBackoff == 0

ZeroStats == [num_empty_messages |-> 0, num_packets |-> 0, num_heartbeats |-> 0]

\* The locals of a connection attempt go out of scope when it returns.
DropConnection ==
    /\ keypair' = 0
    /\ kp' = 0
    /\ access_token' = NoToken
    /\ authorization' = None
    /\ refresh_token' = NoToken
    /\ num_full_refreshes' = 0
    /\ num_refresh_access_token' = 0
    /\ heartbeat_event' = None
    /\ packet_stream' = <<>>
    /\ relayer_stats' = ZeroStats
    /\ since_heartbeat' = 0
    /\ heartbeat_timer' = 0
    /\ metrics_timer' = 0
    /\ maintenance_timer' = 0

\* connect_auth_and_stream returns Err(e): the Err arm of start, up to the sleep.
ReturnErr(e) ==
    /\ ret' = e
    /\ backoff_sec' = NextBackoff(backoff_sec)
    /\ streak' = Min(streak + 1, MaxStreak)
    /\ pc' = "sleep"
    /\ DropConnection
    /\ UNCHANGED <<exit, had_ok, cfgVars, utc, sinkVars>>

\* connect_auth_and_stream returns Ok(()): the Ok arm of start.
ReturnOk ==
    /\ ret' = "Ok"
    /\ backoff_sec' = ResetBackoff
    /\ streak' = 0
    /\ had_ok' = TRUE
    /\ pc' = "loop"
    /\ DropConnection
    /\ UNCHANGED <<exit, cfgVars, utc, sinkVars>>

\* An unwrap() of an Err: the relayer-stage thread unwinds and is gone.
Panic ==
    /\ pc' = "panicked"
    /\ DropConnection
    /\ UNCHANGED <<exit, backoff_sec, ret, streak, had_ok, cfgVars, utc, sinkVars>>

\* while !exit.load(): the flag is set, the loop and the task end.
LoopExit ==
    /\ pc = "loop"
    /\ exit
    /\ pc' = "done"
    /\ UNCHANGED <<exit, backoff_sec, ret, streak, had_ok, cfgVars, authVars, loopVars,
                   utc, sinkVars>>

\* Variant: a new attempt is started without looking at the flag.
LoopConnectIgnoringExit ==
    /\ pc = "loop"
    /\ pc' = "dial_auth"
    /\ ret' = "none"
    /\ keypair' = cluster_id
    /\ UNCHANGED <<exit, backoff_sec, streak, had_ok, cfgVars, kp, access_token,
                   authorization, refresh_token, num_full_refreshes,
                   num_refresh_access_token, loopVars, utc, sinkVars>>

\* while !exit.load(): a new attempt; connect_auth_and_stream takes the keypair and
\* starts dialing the auth service.
LoopConnect ==
    /\ pc = "loop"
    /\ ~exit
    /\ pc' = "dial_auth"
    /\ ret' = "none"
    /\ keypair' = cluster_id
    /\ UNCHANGED <<exit, backoff_sec, streak, had_ok, cfgVars, kp, access_token,
                   authorization, refresh_token, num_full_refreshes,
                   num_refresh_access_token, loopVars, utc, sinkVars>>

\* sleep(Duration::from_secs(backoff_sec)) is over.
SleepDone ==
    /\ pc = "sleep"
    /\ pc' = "loop"
    /\ UNCHANGED <<exit, backoff_sec, ret, streak, had_ok, cfgVars, authVars, loopVars,
                   utc, sinkVars>>

\* The host sets or clears the flag.
SetExit(b) ==
    /\ pc \notin {"done", "panicked"}
    /\ exit # b
    /\ exit' = b
    /\ UNCHANGED <<pc, backoff_sec, ret, streak, had_ok, cfgVars, authVars, loopVars,
                   utc, sinkVars>>

\* Another thread gives cluster_info a new identity keypair.
RotateIdentity(id) ==
    /\ pc \notin {"done", "panicked"}
    /\ id # cluster_id
    /\ cluster_id' = id
    /\ UNCHANGED <<supVars, trust_packets, fault, authVars, loopVars, utc, sinkVars>>

----------------------------------------------------------------------------
(* connect_auth_and_stream and start_consuming_relayer_packets: one attempt.  *)
(* Each await is a position of pc; what the remote end answers is the input.  *)

\* Variant: the relayer is dialled once the auth service is connected, without the
\* handshake.
AuthDialOkSkipsHandshake ==
    /\ pc = "dial_auth"
    /\ pc' = "dial_relayer"
    /\ kp' = keypair
    /\ UNCHANGED <<exit, backoff_sec, ret, streak, had_ok, cfgVars, keypair, access_token,
                   authorization, refresh_token, num_full_refreshes,
                   num_refresh_access_token, loopVars, utc, sinkVars>>

\* timeout(connection_timeout, auth_service_endpoint.connect()) succeeds;
\* generate_auth_tokens sends GenerateAuthChallenge for `keypair`.
AuthDialOk ==
    /\ pc = "dial_auth"
    /\ pc' = "auth_challenge"
    /\ kp' = keypair
    /\ UNCHANGED <<exit, backoff_sec, ret, streak, had_ok, cfgVars, keypair, access_token,
                   authorization, refresh_token, num_full_refreshes,
                   num_refresh_access_token, loopVars, utc, sinkVars>>

AuthDialTimeout ==
    /\ pc = "dial_auth"
    /\ ReturnErr("AuthenticationConnectionTimeout")

AuthDialError ==
    /\ pc = "dial_auth"
    /\ ReturnErr("AuthenticationConnectionError")

\* generate_auth_challenge answers; the challenge is signed and GenerateAuthTokens sent.
AuthChallengeOk ==
    /\ pc = "auth_challenge"
    /\ pc' = "auth_tokens"
    /\ UNCHANGED <<exit, backoff_sec, ret, streak, had_ok, cfgVars, authVars, loopVars,
                   utc, sinkVars>>

AuthChallengeErr ==
    /\ pc = "auth_challenge"
    /\ ReturnErr("AuthenticationError")

\* generate_auth_tokens answers `resp`; both tokens are validated.
AuthTokensOk(resp) ==
    /\ pc = "auth_tokens"
    /\ LET pair == ValidatedPair(resp)
       IN  IF pair.err # ""
           THEN ReturnErr(pair.err)
           ELSE /\ access_token' = pair.val[1][1]
                /\ refresh_token' = pair.val[1][2]
                /\ pc' = "dial_relayer"
                /\ UNCHANGED <<exit, backoff_sec, ret, streak, had_ok, cfgVars, keypair,
                               kp, authorization, num_full_refreshes,
                               num_refresh_access_token, loopVars, utc, sinkVars>>

AuthTokensErr ==
    /\ pc = "auth_tokens"
    /\ ReturnErr("AuthenticationError")

\* timeout(connection_timeout, generate_auth_tokens(..)) runs out during either call.
AuthTimeout ==
    /\ pc \in {"auth_challenge", "auth_tokens"}
    /\ ReturnErr("AuthenticationTimeout")

\* timeout(connection_timeout, backend_endpoint.connect()) succeeds; the client is
\* built around the shared access token and get_tpu_configs is sent.
RelayerDialOk ==
    /\ pc = "dial_relayer"
    /\ LET header == AuthInterceptorCall(access_token)
       IN  IF header.err # ""
           THEN Panic
           ELSE /\ authorization' = header.val
                /\ pc' = "get_tpu_configs"
                /\ UNCHANGED <<exit, backoff_sec, ret, streak, had_ok, cfgVars, keypair,
                               kp, access_token, refresh_token, num_full_refreshes,
                               num_refresh_access_token, loopVars, utc, sinkVars>>

RelayerDialTimeout ==
    /\ pc = "dial_relayer"
    /\ ReturnErr("RelayerConnectionTimeout")

RelayerDialError ==
    /\ pc = "dial_relayer"
    /\ ReturnErr("RelayerConnectionError")

U16Modulus == 2 ^ (IntWidth - 2)

\* `port as u16`
AsU16(port) == port % U16Modulus

\* ip.parse::<Ipv4Addr>(): address 0 stands for a string that is no IPv4 address.
ParseIpv4(ip) == IF ip = 0 THEN Err("BadTpuSocket") ELSE Ok(ip)

\* Variant: the event carries the tpu socket in both places.
HeartbeatEventOfTpuOnly(tpu_config) ==
    IF tpu_config.tpu = None THEN Err("MissingTpuSocket")
    ELSE IF tpu_config.tpu_forward = None THEN Err("MissingTpuSocket")
    ELSE LET tpu_addr == tpu_config.tpu[1]
             tpu_ip == ParseIpv4(tpu_addr.ip)
             tpu_forward_ip == ParseIpv4(tpu_config.tpu_forward[1].ip)
         IN  IF tpu_ip.err # "" THEN Err(tpu_ip.err)
             ELSE IF tpu_forward_ip.err # "" THEN Err(tpu_forward_ip.err)
             ELSE Ok(<<[ip |-> tpu_ip.val[1], port |-> AsU16(tpu_addr.port)],
                       [ip |-> tpu_ip.val[1], port |-> AsU16(tpu_addr.port)]>>)

\* The block that builds heartbeat_event from the GetTpuConfigs response.
HeartbeatEventOf(tpu_config) ==
    IF tpu_config.tpu = None THEN Err("MissingTpuSocket")
    ELSE IF tpu_config.tpu_forward = None THEN Err("MissingTpuSocket")
    ELSE LET tpu_addr == tpu_config.tpu[1]
             tpu_forward_addr == tpu_config.tpu_forward[1]
             tpu_ip == ParseIpv4(tpu_addr.ip)
             tpu_forward_ip == ParseIpv4(tpu_forward_addr.ip)
         IN  IF tpu_ip.err # "" THEN Err(tpu_ip.err)
             ELSE IF tpu_forward_ip.err # "" THEN Err(tpu_forward_ip.err)
             ELSE Ok(<<[ip |-> tpu_ip.val[1], port |-> AsU16(tpu_addr.port)],
                       [ip |-> tpu_forward_ip.val[1],
                        port |-> AsU16(tpu_forward_addr.port)]>>)

\* get_tpu_configs answers; on success subscribe_packets is sent, through the
\* interceptor again.
GetTpuConfigsOk(tpu_config) ==
    /\ pc = "get_tpu_configs"
    /\ LET ev == HeartbeatEventOf(tpu_config)
           header == AuthInterceptorCall(access_token)
       IN  IF ev.err # ""
           THEN ReturnErr(ev.err)
           ELSE IF header.err # ""
           THEN Panic
           ELSE /\ heartbeat_event' = ev.val
                /\ authorization' = header.val
                /\ pc' = "subscribe_packets"
                /\ UNCHANGED <<exit, backoff_sec, ret, streak, had_ok, cfgVars, keypair,
                               kp, access_token, refresh_token, num_full_refreshes,
                               num_refresh_access_token, packet_stream, relayer_stats,
                               since_heartbeat, heartbeat_timer, metrics_timer,
                               maintenance_timer, utc, sinkVars>>

GetTpuConfigsErr ==
    /\ pc = "get_tpu_configs"
    /\ ReturnErr("GrpcError")

\* subscribe_packets answers; consume_packet_stream sets up its locals.  The first
\* tick of a tokio interval completes at once, and last_heartbeat_ts is now.
SubscribeOk ==
    /\ pc = "subscribe_packets"
    /\ pc' = "stream"
    /\ relayer_stats' = ZeroStats
    /\ num_full_refreshes' = 0
    /\ num_refresh_access_token' = 0
    /\ since_heartbeat' = 0
    /\ heartbeat_timer' = 0
    /\ metrics_timer' = 0
    /\ maintenance_timer' = 0
    /\ packet_stream' = <<>>
    /\ UNCHANGED <<exit, backoff_sec, ret, streak, had_ok, cfgVars, keypair, kp,
                   access_token, authorization, refresh_token, heartbeat_event, utc,
                   sinkVars>>

SubscribeErr ==
    /\ pc = "subscribe_packets"
    /\ ReturnErr("GrpcError")

----------------------------------------------------------------------------
(* consume_packet_stream: the loop, its select! and handle_relayer_packets *)

Streaming == pc \in {"stream", "select", "maintenance", "maint_challenge",
                     "maint_tokens", "maint_refresh"}

\* saturating_add_assign!, on counters whose largest value is MaxStat.
SaturatingAdd(a, b) == Min(a + b, MaxStat)

\* Variant: a send to a dropped receiver is taken for sent.
SendToClosedOk(sink) == TRUE

\* crossbeam Sender::send: Err when the receiving end is gone.
SendOk(sink) == sink \in rx_open

\* while !exit.load(Ordering::Relaxed): the flag is set, the loop ends with Ok(()).
ConsumerExit ==
    /\ pc = "stream"
    /\ exit
    /\ ReturnOk

\* while !exit.load(Ordering::Relaxed): the flag is clear, select! waits.
ConsumerSelect ==
    /\ pc = "stream"
    /\ ~exit
    /\ pc' = "select"
    /\ UNCHANGED <<exit, backoff_sec, ret, streak, had_ok, cfgVars, authVars, loopVars,
                   utc, sinkVars>>

\* Variant: an empty message counts as a sign of life.
RecvEmptyFeedsWatchdog ==
    /\ pc = "select"
    /\ packet_stream # <<>>
    /\ Head(packet_stream).kind = "empty"
    /\ packet_stream' = Tail(packet_stream)
    /\ relayer_stats' = [relayer_stats EXCEPT !.num_empty_messages = SaturatingAdd(@, 1)]
    /\ since_heartbeat' = 0
    /\ pc' = "stream"
    /\ UNCHANGED <<exit, backoff_sec, ret, streak, had_ok, cfgVars, authVars,
                   heartbeat_event, heartbeat_timer, metrics_timer,
                   maintenance_timer, utc, sinkVars>>

\* packet_stream.message() yields a response whose msg is None.
RecvEmpty ==
    /\ pc = "select"
    /\ packet_stream # <<>>
    /\ Head(packet_stream).kind = "empty"
    /\ packet_stream' = Tail(packet_stream)
    /\ relayer_stats' = [relayer_stats EXCEPT !.num_empty_messages = SaturatingAdd(@, 1)]
    /\ pc' = "stream"
    /\ UNCHANGED <<exit, backoff_sec, ret, streak, had_ok, cfgVars, authVars,
                   heartbeat_event, since_heartbeat, heartbeat_timer, metrics_timer,
                   maintenance_timer, utc, sinkVars>>

\* Variant: the two sinks exchanged.
BatchSinkSwapped(trust) == IF trust THEN "packet_tx" ELSE "verified_packet_tx"

\* The sink a batch goes to.
BatchSink(trust) == IF trust THEN "verified_packet_tx" ELSE "packet_tx"

\* What is sent for a batch of `len` packets: (vec![packet_batch], None) or the batch.
BatchItem(trust, len) ==
    IF trust THEN [batches |-> <<len>>, stats |-> None] ELSE [batch |-> len]

\* packet_stream.message() yields a batch.
RecvBatch ==
    /\ pc = "select"
    /\ packet_stream # <<>>
    /\ Head(packet_stream).kind = "batch"
    /\ LET len == Head(packet_stream).len
           sink == BatchSink(trust_packets)
       IN  IF SendOk(sink)
           THEN /\ IF sink = "verified_packet_tx"
                   THEN /\ Len(verified_packet_tx) < MaxQueue
                        /\ verified_packet_tx' =
                               Append(verified_packet_tx, BatchItem(trust_packets, len))
                        /\ UNCHANGED packet_tx
                   ELSE /\ Len(packet_tx) < MaxQueue
                        /\ packet_tx' = Append(packet_tx, BatchItem(trust_packets, len))
                        /\ UNCHANGED verified_packet_tx
                /\ packet_stream' = Tail(packet_stream)
                /\ relayer_stats' =
                       [relayer_stats EXCEPT !.num_packets = SaturatingAdd(@, len)]
                /\ pc' = "stream"
                /\ UNCHANGED <<exit, backoff_sec, ret, streak, had_ok, cfgVars, authVars,
                               heartbeat_event, since_heartbeat, heartbeat_timer,
                               metrics_timer, maintenance_timer, utc, heartbeat_tx,
                               rx_open>>
           ELSE ReturnErr("PacketForwardError")

\* packet_stream.message() yields a heartbeat.
RecvHeartbeat ==
    /\ pc = "select"
    /\ packet_stream # <<>>
    /\ Head(packet_stream).kind = "heartbeat"
    /\ IF SendOk("heartbeat_tx")
       THEN /\ Len(heartbeat_tx) < MaxQueue
            /\ heartbeat_tx' = Append(heartbeat_tx, heartbeat_event[1])
            /\ since_heartbeat' = 0
            /\ packet_stream' = Tail(packet_stream)
            /\ relayer_stats' = [relayer_stats EXCEPT !.num_heartbeats = SaturatingAdd(@, 1)]
            /\ pc' = "stream"
            /\ UNCHANGED <<exit, backoff_sec, ret, streak, had_ok, cfgVars, authVars,
                           heartbeat_event, heartbeat_timer, metrics_timer,
                           maintenance_timer, utc, packet_tx, verified_packet_tx,
                           rx_open>>
       ELSE ReturnErr("HeartbeatChannelError")

\* Variant: the end of the stream ends the loop with Ok(()).
StreamDisconnectedReturnsOk ==
    /\ pc = "select"
    /\ packet_stream = <<>>
    /\ ReturnOk

\* packet_stream.message() yields Ok(None): the stream is over.
StreamDisconnected ==
    /\ pc = "select"
    /\ packet_stream = <<>>
    /\ ReturnErr("GrpcStreamDisconnected")

\* packet_stream.message() yields Err(status).
StreamError ==
    /\ pc = "select"
    /\ packet_stream = <<>>
    /\ ReturnErr("GrpcError")

\* Variant: the watchdog fires at the deadline itself.
HeartbeatIsExpiredAtDeadline(elapsed) == elapsed >= OldestAllowedHeartbeat

\* last_heartbeat_ts.elapsed() > oldest_allowed_heartbeat
HeartbeatIsExpired(elapsed) == elapsed > OldestAllowedHeartbeat

\* heartbeat_check_interval.tick()
HeartbeatTick ==
    /\ pc = "select"
    /\ heartbeat_timer = 0
    /\ IF HeartbeatIsExpired(since_heartbeat)
       THEN ReturnErr("HeartbeatExpired")
       ELSE /\ heartbeat_timer' = ExpectedHeartbeatInterval
            /\ pc' = "stream"
            /\ UNCHANGED <<exit, backoff_sec, ret, streak, had_ok, cfgVars, authVars,
                           heartbeat_event, packet_stream, relayer_stats,
                           since_heartbeat, metrics_timer, maintenance_timer, utc,
                           sinkVars>>

\* Variant: the metrics tick reports and keeps the counters.
MetricsTickKeepsStats ==
    /\ pc = "select"
    /\ metrics_timer = 0
    /\ metrics_timer' = METRICS_TICK
    /\ pc' = "stream"
    /\ UNCHANGED <<exit, backoff_sec, ret, streak, had_ok, cfgVars, authVars,
                   heartbeat_event, packet_stream, relayer_stats, since_heartbeat,
                   heartbeat_timer, maintenance_timer, utc, sinkVars>>

\* metrics_tick.tick(): report, then relayer_stats = RelayerStageStats::default().
MetricsTick ==
    /\ pc = "select"
    /\ metrics_timer = 0
    /\ metrics_timer' = METRICS_TICK
    /\ relayer_stats' = ZeroStats
    /\ pc' = "stream"
    /\ UNCHANGED <<exit, backoff_sec, ret, streak, had_ok, cfgVars, authVars,
                   heartbeat_event, packet_stream, since_heartbeat, heartbeat_timer,
                   maintenance_timer, utc, sinkVars>>

\* Variant: the maintenance tick without the identity comparison.
MaintenanceTickNoIdentityCheck ==
    /\ pc = "select"
    /\ maintenance_timer = 0
    /\ maintenance_timer' = MAINTENANCE_TICK
    /\ pc' = "maintenance"
    /\ UNCHANGED <<exit, backoff_sec, ret, streak, had_ok, cfgVars, authVars,
                   heartbeat_event, packet_stream, relayer_stats, since_heartbeat,
                   heartbeat_timer, metrics_timer, utc, sinkVars>>

\* maintenance_tick.tick(): cluster_info.id() != keypair.pubkey() is checked first.
MaintenanceTick ==
    /\ pc = "select"
    /\ maintenance_timer = 0
    /\ IF cluster_id # keypair
       THEN ReturnErr("AuthenticationConnectionError: Validator ID Changed")
       ELSE /\ maintenance_timer' = MAINTENANCE_TICK
            /\ pc' = "maintenance"
            /\ UNCHANGED <<exit, backoff_sec, ret, streak, had_ok, cfgVars, authVars,
                           heartbeat_event, packet_stream, relayer_stats,
                           since_heartbeat, heartbeat_timer, metrics_timer, utc,
                           sinkVars>>

----------------------------------------------------------------------------
(* maybe_refresh_auth_tokens, called by the maintenance tick.  Its calls to  *)
(* the auth service are awaited as they are: no timeout is put around them.  *)

\* The decision, and the request it sends.  A full re-handshake reads the keypair
\* from cluster_info again.
MaybeRefreshAuthTokens ==
    /\ pc = "maintenance"
    /\ LET action == RefreshDecision(access_token, refresh_token, NowU64(utc),
                                     AUTH_REFRESH_LOOKAHEAD)
       IN  CASE action = "FullReauth" ->
                    /\ num_full_refreshes < MaxRotations
                    /\ kp' = cluster_id
                    /\ pc' = "maint_challenge"
             [] action = "LightRefresh" ->
                    /\ num_refresh_access_token < MaxRotations
                    /\ kp' = kp
                    /\ pc' = "maint_refresh"
             [] OTHER ->
                    /\ kp' = kp
                    /\ pc' = "stream"
    /\ UNCHANGED <<exit, backoff_sec, ret, streak, had_ok, cfgVars, keypair, access_token,
                   authorization, refresh_token, num_full_refreshes,
                   num_refresh_access_token, loopVars, utc, sinkVars>>

\* generate_auth_challenge answers inside the full re-handshake.
MaintChallengeOk ==
    /\ pc = "maint_challenge"
    /\ pc' = "maint_tokens"
    /\ UNCHANGED <<exit, backoff_sec, ret, streak, had_ok, cfgVars, authVars, loopVars,
                   utc, sinkVars>>

MaintChallengeErr ==
    /\ pc = "maint_challenge"
    /\ ReturnErr("AuthenticationError")

\* Variant: the full re-handshake installs the access token alone.
MaintTokensOkAccessOnly(resp) ==
    /\ pc = "maint_tokens"
    /\ LET pair == ValidatedPair(resp)
       IN  IF pair.err # ""
           THEN ReturnErr(pair.err)
           ELSE /\ access_token' = pair.val[1][1]
                /\ num_full_refreshes' = num_full_refreshes + 1
                /\ pc' = "stream"
                /\ UNCHANGED <<exit, backoff_sec, ret, streak, had_ok, cfgVars, keypair,
                               kp, authorization, refresh_token,
                               num_refresh_access_token, loopVars, utc, sinkVars>>

\* generate_auth_tokens answers `resp`: both tokens are replaced and the full
\* refreshes counted.
MaintTokensOk(resp) ==
    /\ pc = "maint_tokens"
    /\ LET pair == ValidatedPair(resp)
       IN  IF pair.err # ""
           THEN ReturnErr(pair.err)
           ELSE /\ access_token' = pair.val[1][1]
                /\ refresh_token' = pair.val[1][2]
                /\ num_full_refreshes' = num_full_refreshes + 1
                /\ pc' = "stream"
                /\ UNCHANGED <<exit, backoff_sec, ret, streak, had_ok, cfgVars, keypair,
                               kp, authorization, num_refresh_access_token, loopVars,
                               utc, sinkVars>>

MaintTokensErr ==
    /\ pc = "maint_tokens"
    /\ ReturnErr("AuthenticationError")

\* refresh_access_token answers `maybe_token`: the access token is replaced and the
\* refreshes counted.
MaintRefreshOk(maybe_token) ==
    /\ pc = "maint_refresh"
    /\ LET new_access_token == GetValidatedToken(maybe_token)
       IN  IF new_access_token.err # ""
           THEN ReturnErr(new_access_token.err)
           ELSE /\ access_token' = new_access_token.val[1]
                /\ num_refresh_access_token' = num_refresh_access_token + 1
                /\ pc' = "stream"
                /\ UNCHANGED <<exit, backoff_sec, ret, streak, had_ok, cfgVars, keypair,
                               kp, authorization, refresh_token, num_full_refreshes,
                               loopVars, utc, sinkVars>>

MaintRefreshErr ==
    /\ pc = "maint_refresh"
    /\ ReturnErr("AuthenticationError")

----------------------------------------------------------------------------
(* The surroundings: the relayer's stream, the two clocks, the receivers *)

\* The relayer puts a message on the subscription.
RelayerSend(msg) ==
    /\ Streaming
    /\ Len(packet_stream) < MaxInFlight
    /\ packet_stream' = Append(packet_stream, msg)
    /\ UNCHANGED <<supVars, cfgVars, authVars, heartbeat_event, relayer_stats,
                   since_heartbeat, heartbeat_timer, metrics_timer, maintenance_timer,
                   utc, sinkVars>>

\* One unit of monotonic time passes while the consumer loop exists.
Tick ==
    /\ Streaming
    /\ since_heartbeat' = Min(since_heartbeat + 1, OldestAllowedHeartbeat + 1)
    /\ heartbeat_timer' = Max(heartbeat_timer - 1, 0)
    /\ metrics_timer' = Max(metrics_timer - 1, 0)
    /\ maintenance_timer' = Max(maintenance_timer - 1, 0)
    /\ UNCHANGED <<supVars, cfgVars, authVars, heartbeat_event, packet_stream,
                   relayer_stats, utc, sinkVars>>

\* One unit of wall-clock time passes.
WallTick ==
    /\ pc \notin {"done", "panicked"}
    /\ utc < MaxUtc
    /\ utc' = utc + 1
    /\ UNCHANGED <<supVars, cfgVars, authVars, loopVars, sinkVars>>

\* A downstream receiver takes the oldest message of its channel.
Drain(sink) ==
    /\ CASE sink = "heartbeat_tx" ->
                /\ heartbeat_tx # <<>>
                /\ heartbeat_tx' = Tail(heartbeat_tx)
                /\ UNCHANGED <<packet_tx, verified_packet_tx>>
         [] sink = "packet_tx" ->
                /\ packet_tx # <<>>
                /\ packet_tx' = Tail(packet_tx)
                /\ UNCHANGED <<heartbeat_tx, verified_packet_tx>>
         [] OTHER ->
                /\ verified_packet_tx # <<>>
                /\ verified_packet_tx' = Tail(verified_packet_tx)
                /\ UNCHANGED <<heartbeat_tx, packet_tx>>
    /\ UNCHANGED <<supVars, cfgVars, authVars, loopVars, utc, rx_open>>

\* A downstream receiver is dropped.
CloseSink(sink) ==
    /\ pc \notin {"done", "panicked"}
    /\ sink \in rx_open
    /\ rx_open' = rx_open \ {sink}
    /\ UNCHANGED <<supVars, cfgVars, authVars, loopVars, utc, heartbeat_tx, packet_tx,
                   verified_packet_tx>>

----------------------------------------------------------------------------
(* What the remote ends may answer *)

Sinks == {"heartbeat_tx", "packet_tx", "verified_packet_tx"}

Empty == [kind |-> "empty", len |-> 0]
Heartbeat == [kind |-> "heartbeat", len |-> 0]
Batch(n) == [kind |-> "batch", len |-> n]
Messages == {Empty, Heartbeat} \cup {Batch(n) : n \in 0 .. MaxBatchLen}

\* Option<Token> candidates: absent, without expiry, or expiring at one of `expiries`.
TokenCandidates(values, expiries) ==
    {None} \cup {Some(Token(v, e)) : v \in values,
                                      e \in {None} \cup {Some(x) : x \in expiries}}

TokenResponses(values, expiries) ==
    [access_token : TokenCandidates(values, expiries),
     refresh_token : TokenCandidates(values, expiries)]

\* Expiries the auth service stamps at wall-clock time t.
LongExpiry(t) == {t + MaxLifetime}
FreshExpiries(t) == {t + 1, t + MaxLifetime}

\* Every expiry of the model: negative, past and future seconds.
AllExpiries == -1 .. MaxUtc + MaxLifetime

AdvertisedPorts == (1 .. MaxSocket) \cup {U16Modulus + 1}
Sockets == {[ip |-> i, port |-> p] : i \in 0 .. 1, p \in AdvertisedPorts}
TpuConfigs ==
    [tpu : {None} \cup {Some(x) : x \in Sockets},
     tpu_forward : {None} \cup {Some(x) : x \in Sockets}]

\* The configurations that advertise one socket for both roles, or miss one.
OneSocketConfigs ==
    {c \in TpuConfigs :
        \/ c.tpu = None
        \/ c.tpu_forward = None
        \/ (c.tpu = c.tpu_forward /\ c.tpu[1].port = U16Modulus + 1)}

----------------------------------------------------------------------------
(* Spec: the whole lifecycle from startup.  In one run the surroundings      *)
(* disturb the connection in one way (fault); dial and call failures, the    *)
(* end of the stream and the exit flag are possible in every run.            *)

Faults == {"auth", "relayer", "sinks", "clock", "identity"}

StartUp ==
    /\ exit = FALSE
    /\ pc = "loop"
    /\ backoff_sec = InitialBackoff
    /\ ret = "none"
    /\ streak = 0
    /\ had_ok = FALSE
    /\ cluster_id = 1
    /\ keypair = 0
    /\ kp = 0
    /\ access_token = NoToken
    /\ authorization = None
    /\ refresh_token = NoToken
    /\ num_full_refreshes = 0
    /\ num_refresh_access_token = 0
    /\ heartbeat_event = None
    /\ packet_stream = <<>>
    /\ relayer_stats = ZeroStats
    /\ since_heartbeat = 0
    /\ heartbeat_timer = 0
    /\ metrics_timer = 0
    /\ maintenance_timer = 0
    /\ utc = 0
    /\ heartbeat_tx = <<>>
    /\ packet_tx = <<>>
    /\ verified_packet_tx = <<>>
    /\ rx_open = Sinks

Init ==
    /\ StartUp
    /\ trust_packets \in BOOLEAN
    /\ fault \in Faults

\* The expiries the auth service stamps in this run, and the strings it issues.
IssuedExpiries == IF fault = "auth" THEN FreshExpiries(utc) ELSE LongExpiry(utc)
IssuedValues == IF fault = "auth" THEN {"t1", HeaderUnsafeValue} ELSE {"t1"}
SentMessages ==
    CASE fault = "relayer" -> {Empty, Heartbeat, Batch(1)}
      [] fault = "sinks" -> {Heartbeat, Batch(1)}
      [] OTHER -> {}

Next ==
    \/ LoopExit
    \/ LoopConnect
    \/ SleepDone
    \/ \E b \in BOOLEAN : SetExit(b)
    \/ AuthDialOk
    \/ AuthDialTimeout
    \/ AuthDialError
    \/ AuthChallengeOk
    \/ AuthChallengeErr
    \/ \E resp \in TokenResponses(IssuedValues, IssuedExpiries) : AuthTokensOk(resp)
    \/ AuthTokensErr
    \/ AuthTimeout
    \/ RelayerDialOk
    \/ RelayerDialTimeout
    \/ RelayerDialError
    \/ \E cfg \in OneSocketConfigs : GetTpuConfigsOk(cfg)
    \/ GetTpuConfigsErr
    \/ SubscribeOk
    \/ SubscribeErr
    \/ ConsumerExit
    \/ ConsumerSelect
    \/ RecvEmpty
    \/ RecvBatch
    \/ RecvHeartbeat
    \/ StreamDisconnected
    \/ StreamError
    \/ HeartbeatTick
    \/ MetricsTick
    \/ MaintenanceTick
    \/ MaybeRefreshAuthTokens
    \/ MaintChallengeOk
    \/ MaintChallengeErr
    \/ \E resp \in TokenResponses(IssuedValues, IssuedExpiries) : MaintTokensOk(resp)
    \/ MaintTokensErr
    \/ \E tok \in TokenCandidates(IssuedValues, IssuedExpiries) : MaintRefreshOk(tok)
    \/ MaintRefreshErr
    \/ fault = "auth" /\ WallTick
    \/ \E msg \in SentMessages : RelayerSend(msg)
    \/ fault = "sinks" /\ rx_open = Sinks
           /\ \E sink \in {"heartbeat_tx", BatchSink(trust_packets)} : CloseSink(sink)
    \/ fault = "clock" /\ Tick
    \/ fault = "identity" /\ \E id \in Identities : RotateIdentity(id)

Spec == Init /\ [][Next]_vars

----------------------------------------------------------------------------
(* The supervisor under Spec.                                                *)

\* The values connect_auth_and_stream can return as an error.
ErrorKinds ==
    {"AuthenticationConnectionTimeout", "AuthenticationConnectionError",
     "AuthenticationTimeout", "AuthenticationError", "BadAuthenticationToken",
     "RelayerConnectionTimeout", "RelayerConnectionError", "GrpcError",
     "MissingTpuSocket", "BadTpuSocket", "GrpcStreamDisconnected", "HeartbeatExpired",
     "HeartbeatChannelError", "PacketForwardError",
     "AuthenticationConnectionError: Validator ID Changed"}

\* The relayer-stage task is over.
Terminated == pc \in {"done", "panicked"}

\* C2: after the N-th consecutive failed attempt since startup the supervisor
\* sleeps N seconds, for 1 <= N <= 10.
C2_SleepEqualsFailureCount ==
    (pc = "sleep" /\ ~had_ok /\ streak >= 1 /\ streak <= MAX_BACKOFF_S)
        => backoff_sec = streak

\* C8: the backoff never exceeds 10 seconds, whatever the number of failures.
C8_BackoffAtMostTen == backoff_sec <= MAX_BACKOFF_S

\* More failures in a row than the cap, and the supervisor sleeps the cap.
C8_Witness == pc = "sleep" /\ streak > MAX_BACKOFF_S /\ backoff_sec = MAX_BACKOFF_S

\* C9: a successful attempt resets the backoff to 0, and the failure that
\* follows it sleeps one second.
C9_ResetAfterSuccess ==
    /\ ret = "Ok" => backoff_sec = 0
    /\ (pc = "sleep" /\ had_ok /\ streak = 1) => backoff_sec = 1

\* An attempt failed right after an attempt that succeeded.
C9_Witness == pc = "sleep" /\ had_ok /\ streak = 1 /\ ret \in ErrorKinds

\* C6: the task ends only from the loop top with the exit flag set; every error
\* return goes to the backoff sleep, and the sleep leads to a fresh dial.
C6_EveryFailureRetried ==
    [][/\ (Terminated' /\ ~Terminated) => (pc = "loop" /\ exit /\ pc' = "done")
       /\ (ret' \in ErrorKinds /\ ret = "none") => (pc' = "sleep" /\ backoff_sec' >= 1)
       /\ pc = "sleep" => pc' \in {"sleep", "loop"}
       /\ (pc = "loop" /\ ~exit) => pc' \in {"loop", "dial_auth"}]_vars

----------------------------------------------------------------------------
(* AuthSpec: one connection in its streaming loop, with the credentials and  *)
(* the wall clock anywhere in their range.  The auth service may have issued *)
(* any expiry, a negative one included.                                      *)

Streamed(access, refresh, now, trust) ==
    /\ exit = FALSE
    /\ pc = "stream"
    /\ backoff_sec = InitialBackoff
    /\ ret = "none"
    /\ streak = 0
    /\ had_ok = FALSE
    /\ trust_packets = trust
    /\ cluster_id = 1
    /\ keypair = 1
    /\ kp = 1
    /\ access_token = access
    /\ authorization = AuthInterceptorCall(access).val
    /\ refresh_token = refresh
    /\ num_full_refreshes = 0
    /\ num_refresh_access_token = 0
    /\ heartbeat_event = Some(<<[ip |-> 1, port |-> 1], [ip |-> 1, port |-> 1]>>)
    /\ packet_stream = <<>>
    /\ relayer_stats = ZeroStats
    /\ since_heartbeat = 0
    /\ heartbeat_timer = 0
    /\ metrics_timer = 0
    /\ maintenance_timer = 0
    /\ utc = now
    /\ heartbeat_tx = <<>>
    /\ packet_tx = <<>>
    /\ verified_packet_tx = <<>>
    /\ rx_open = Sinks

AuthInit ==
    /\ fault = "auth"
    /\ \E a \in AllExpiries, r \in AllExpiries, now \in 0 .. MaxUtc :
           Streamed(Token("t1", Some(a)), Token("t1", Some(r)), now, FALSE)

\* What the auth service answers to a rotation.
RotationExpiries == {-1, utc + 1, utc + MaxLifetime}

AuthNext ==
    \/ ConsumerSelect
    \/ MaintenanceTick
    \/ MaybeRefreshAuthTokens
    \/ MaintChallengeOk
    \/ MaintChallengeErr
    \/ \E resp \in TokenResponses({"t2"}, RotationExpiries) : MaintTokensOk(resp)
    \/ MaintTokensErr
    \/ \E tok \in TokenCandidates({"t2"}, RotationExpiries) : MaintRefreshOk(tok)
    \/ MaintRefreshErr
    \/ WallTick
    \/ Tick
    \/ \E id \in Identities : RotateIdentity(id)

AuthSpec == AuthInit /\ [][AuthNext]_vars

----------------------------------------------------------------------------
(* The credentials under AuthSpec.                                           *)

\* max(expiry - now, 0), on the unsigned seconds maybe_refresh_auth_tokens reads.
Remaining(token, now) == Max(TokenExpiry(token) - now, 0)

\* The program position each outcome of the decision leads to.
ExpectedDecision(access, refresh, now, lookahead) ==
    IF Remaining(refresh, now) <= lookahead THEN "maint_challenge"
    ELSE IF Remaining(access, now) <= lookahead THEN "maint_refresh"
    ELSE "stream"

\* C3: the refresh decision.  refresh_remaining <= lookahead gives the full
\* re-handshake whatever the access expiry; otherwise access_remaining <= lookahead
\* gives the lightweight refresh; otherwise no call is made and nothing changes.
C3_RefreshDecision ==
    [][(pc = "maintenance" /\ pc' # "maintenance") =>
           /\ pc' = ExpectedDecision(access_token, refresh_token, NowU64(utc),
                                     AUTH_REFRESH_LOOKAHEAD)
           /\ access_token' = access_token
           /\ refresh_token' = refresh_token
           /\ num_full_refreshes' = num_full_refreshes
           /\ num_refresh_access_token' = num_refresh_access_token]_vars

\* A lightweight refresh was decided with the access token exactly at the lookahead.
C3_Witness ==
    /\ pc = "maint_refresh"
    /\ Remaining(access_token, NowU64(utc)) = AUTH_REFRESH_LOOKAHEAD
    /\ Remaining(refresh_token, NowU64(utc)) > AUTH_REFRESH_LOOKAHEAD

IdentityChanged == "AuthenticationConnectionError: Validator ID Changed"

\* C4: a maintenance tick serviced while cluster_info.id() differs from the keypair
\* of the connection ends the connection with an error in that step; the refresh
\* decision is not reached, no auth call is sent and no credential is installed
\* (the credentials are as before, or gone with the connection).
C4_IdentityChangeEndsConnection ==
    [][/\ (MaintenanceTick /\ cluster_id # keypair) =>
              /\ pc' = "sleep"
              /\ ret' = IdentityChanged
              /\ access_token' \in {access_token, NoToken}
              /\ refresh_token' \in {refresh_token, NoToken}
       /\ (pc = "select" /\ cluster_id # keypair) =>
              pc' \notin {"maintenance", "maint_challenge", "maint_tokens",
                          "maint_refresh"}]_vars

\* The connection ended on the identity comparison.
C4_Witness == pc = "sleep" /\ ret = IdentityChanged /\ cluster_id # 1

\* C10: a successful lightweight refresh replaces the access token alone and counts
\* one refresh; a successful full re-handshake replaces both tokens by the issued
\* pair and counts one full refresh, not a lightweight one.
C10_RotationEffects ==
    [][/\ \A tok \in TokenCandidates({"t2"}, RotationExpiries) :
              (MaintRefreshOk(tok) /\ pc' = "stream") =>
                  /\ access_token' = tok[1]
                  /\ refresh_token' = refresh_token
                  /\ num_full_refreshes' = num_full_refreshes
                  /\ num_refresh_access_token' = num_refresh_access_token + 1
       /\ \A resp \in TokenResponses({"t2"}, RotationExpiries) :
              (MaintTokensOk(resp) /\ pc' = "stream") =>
                  /\ access_token' = resp.access_token[1]
                  /\ refresh_token' = resp.refresh_token[1]
                  /\ num_full_refreshes' = num_full_refreshes + 1
                  /\ num_refresh_access_token' = num_refresh_access_token]_vars

\* One full re-handshake and one lightweight refresh were done on this connection.
C10_Witness ==
    /\ pc = "stream"
    /\ num_full_refreshes = 1
    /\ num_refresh_access_token = 1
    /\ access_token.value = "t2"
    /\ refresh_token.value = "t2"

----------------------------------------------------------------------------
(* StreamSpec: one connection in its streaming loop, the relayer sending any *)
(* message, the receivers taking messages or going away.                     *)

FarExpiry == Token("t1", Some(MaxLifetime))

StreamInit ==
    /\ fault = "relayer"
    /\ \E trust \in BOOLEAN : Streamed(FarExpiry, FarExpiry, 0, trust)

StreamNext ==
    \/ ConsumerSelect
    \/ RecvEmpty
    \/ RecvBatch
    \/ RecvHeartbeat
    \/ StreamDisconnected
    \/ StreamError
    \/ MetricsTick
    \/ Tick
    \/ \E msg \in Messages : RelayerSend(msg)
    \/ \E sink \in Sinks : Drain(sink)
    \/ \E sink \in Sinks : CloseSink(sink)

StreamSpec == StreamInit /\ [][StreamNext]_vars

\* A batch was taken from the stream and the loop went on.
BatchForwarded ==
    /\ pc = "select"
    /\ pc' = "stream"
    /\ packet_stream # <<>>
    /\ Head(packet_stream).kind = "batch"
    /\ packet_stream' = Tail(packet_stream)

\* C5: with trust_packets a received batch is sent once to verified_packet_tx as
\* (vec![batch], None) and packet_tx never gets anything; without trust_packets the
\* batch is sent once to packet_tx and verified_packet_tx never gets anything.
C5_PacketRouting ==
    [][/\ BatchForwarded =>
              LET len == Head(packet_stream).len
              IN  IF trust_packets
                  THEN /\ verified_packet_tx' =
                              Append(verified_packet_tx,
                                     [batches |-> <<len>>, stats |-> None])
                       /\ packet_tx' = packet_tx
                  ELSE /\ packet_tx' = Append(packet_tx, [batch |-> len])
                       /\ verified_packet_tx' = verified_packet_tx
       /\ ~BatchForwarded =>
              /\ Len(verified_packet_tx') <= Len(verified_packet_tx)
              /\ Len(packet_tx') <= Len(packet_tx)
       /\ trust_packets => packet_tx' = <<>>
       /\ ~trust_packets => verified_packet_tx' = <<>>]_vars

\* A trusted batch of two packets sits in the verified sink.
C5_Witness ==
    /\ trust_packets
    /\ verified_packet_tx = <<[batches |-> <<MaxBatchLen>>, stats |-> None]>>
    /\ relayer_stats.num_packets > 0

----------------------------------------------------------------------------
(* WatchdogSpec: one connection in its streaming loop with time passing, the *)
(* relayer sending heartbeats and batches or nothing, and maintenance ticks  *)
(* that rotate credentials.  LiveSpec is the same with fairness: time passes *)
(* and the consumer loop keeps running (each branch of select! that is ready *)
(* again and again is taken); nothing obliges the remote ends to answer.     *)

SoonExpiry == Token("t1", Some(1))

WatchdogInit ==
    /\ fault = "clock"
    /\ \E access \in {SoonExpiry, FarExpiry}, refresh \in {SoonExpiry, FarExpiry} :
           Streamed(access, refresh, 0, FALSE)

WatchdogNext ==
    \/ ConsumerSelect
    \/ RecvBatch
    \/ RecvHeartbeat
    \/ HeartbeatTick
    \/ MetricsTick
    \/ MaintenanceTick
    \/ MaybeRefreshAuthTokens
    \/ MaintChallengeOk
    \/ MaintChallengeErr
    \/ \E resp \in TokenResponses({"t2"}, LongExpiry(utc)) : MaintTokensOk(resp)
    \/ MaintTokensErr
    \/ \E tok \in TokenCandidates({"t2"}, LongExpiry(utc)) : MaintRefreshOk(tok)
    \/ MaintRefreshErr
    \/ Tick
    \/ \E msg \in {Heartbeat, Batch(1)} : RelayerSend(msg)
    \/ \E sink \in {"heartbeat_tx", "packet_tx"} : Drain(sink)

WatchdogSpec == WatchdogInit /\ [][WatchdogNext]_vars

LoopFairness ==
    /\ WF_vars(Tick)
    /\ WF_vars(ConsumerSelect)
    /\ WF_vars(MaybeRefreshAuthTokens)
    /\ WF_vars(\E sink \in {"heartbeat_tx", "packet_tx"} : Drain(sink))
    /\ SF_vars(HeartbeatTick)
    /\ SF_vars(MetricsTick)
    /\ SF_vars(MaintenanceTick)
    /\ SF_vars(RecvBatch)
    /\ SF_vars(RecvHeartbeat)

LiveSpec == WatchdogSpec /\ LoopFairness

\* The same, with an auth service that answers every call of a rotation.
AuthAnswers ==
    /\ WF_vars(MaintChallengeOk \/ MaintChallengeErr)
    /\ WF_vars(MaintTokensErr
                  \/ \E resp \in TokenResponses({"t2"}, LongExpiry(utc)) :
                         MaintTokensOk(resp))
    /\ WF_vars(MaintRefreshErr
                  \/ \E tok \in TokenCandidates({"t2"}, LongExpiry(utc)) :
                         MaintRefreshOk(tok))

AnsweredSpec == LiveSpec /\ AuthAnswers

\* The heartbeat is overdue.
Overdue == Streaming /\ since_heartbeat > OldestAllowedHeartbeat

\* C1: once no heartbeat has been received for longer than oldest_allowed_heartbeat,
\* the connection ends (with HeartbeatExpired, unless a late heartbeat or another
\* error comes first), whatever else happens in the meantime.
C1_WatchdogFires == Overdue ~> (~Streaming \/ since_heartbeat = 0)

\* C7: HeartbeatExpired is returned only by a heartbeat tick at which the time since
\* the last heartbeat (or since the loop was entered) is strictly greater than
\* oldest_allowed_heartbeat; a heartbeat that is received resets that time to zero,
\* and a heartbeat tick within the deadline leaves the connection running.
C7_HeartbeatSurvival ==
    [][/\ (ret' = "HeartbeatExpired" /\ ret # "HeartbeatExpired") =>
              /\ pc = "select"
              /\ heartbeat_timer = 0
              /\ since_heartbeat > OldestAllowedHeartbeat
       /\ (pc = "select" /\ pc' = "stream" /\ packet_stream # <<>>
             /\ Head(packet_stream).kind = "heartbeat"
             /\ packet_stream' = Tail(packet_stream)) => since_heartbeat' = 0
       /\ (HeartbeatTick /\ since_heartbeat <= OldestAllowedHeartbeat) =>
              (pc' = "stream" /\ ret' = "none")]_vars

\* A heartbeat tick at the deadline itself was survived.
C7_Witness ==
    /\ pc = "stream"
    /\ since_heartbeat = OldestAllowedHeartbeat
    /\ heartbeat_timer = ExpectedHeartbeatInterval
    /\ relayer_stats.num_heartbeats > 0

----------------------------------------------------------------------------
(* ConnectSpec: connection attempts one after the other, from startup.  In   *)
(* ConnectLiveSpec the supervisor keeps running and every step that the code *)
(* wraps in timeout(connection_timeout, ..) ends, by an answer or by the     *)
(* timeout; nothing obliges the remote ends to answer the other calls.       *)

ConnectInit ==
    /\ StartUp
    /\ trust_packets \in BOOLEAN
    /\ fault = "relayer"

ConnectNext ==
    \/ LoopConnect
    \/ SleepDone
    \/ AuthDialOk
    \/ AuthDialTimeout
    \/ AuthDialError
    \/ AuthChallengeOk
    \/ AuthChallengeErr
    \/ \E resp \in TokenResponses({"t1"}, LongExpiry(utc)) : AuthTokensOk(resp)
    \/ AuthTokensErr
    \/ AuthTimeout
    \/ RelayerDialOk
    \/ RelayerDialTimeout
    \/ RelayerDialError
    \/ \E cfg \in OneSocketConfigs : GetTpuConfigsOk(cfg)
    \/ GetTpuConfigsErr
    \/ SubscribeOk
    \/ SubscribeErr
    \/ ConsumerSelect
    \/ StreamDisconnected

ConnectSpec == ConnectInit /\ [][ConnectNext]_vars

TimeoutsFire ==
    /\ WF_vars(LoopConnect)
    /\ WF_vars(SleepDone)
    /\ WF_vars(AuthDialOk \/ AuthDialTimeout \/ AuthDialError)
    /\ WF_vars(AuthChallengeOk \/ AuthChallengeErr \/ AuthTokensErr \/ AuthTimeout
                  \/ \E resp \in TokenResponses({"t1"}, LongExpiry(utc)) :
                         AuthTokensOk(resp))
    /\ WF_vars(RelayerDialOk \/ RelayerDialTimeout \/ RelayerDialError)

ConnectLiveSpec == ConnectSpec /\ TimeoutsFire

\* The same, with a relayer that answers get_tpu_configs and subscribe_packets.
RelayerAnswers ==
    /\ WF_vars(GetTpuConfigsErr \/ \E cfg \in OneSocketConfigs : GetTpuConfigsOk(cfg))
    /\ WF_vars(SubscribeOk \/ SubscribeErr)

ConnectAnsweredSpec == ConnectLiveSpec /\ RelayerAnswers

\* C11: every connection attempt reaches the streaming loop or returns an error,
\* whichever remote calls are never answered.
C11_BoundedSetup == (pc = "dial_auth") ~> (Streaming \/ pc = "sleep" \/ Terminated)

----------------------------------------------------------------------------
(* ShutdownSpec: the whole lifecycle with a host that sets the exit flag at  *)
(* some moment and leaves it set.  Time passes, the task keeps running and   *)
(* every pending call ends, by an answer, an error or a timeout.             *)

ShutdownInit ==
    /\ StartUp
    /\ trust_packets = FALSE
    /\ fault = "clock"

\* The steps of the task, the answers of the remote ends included.
TaskStep ==
    \/ LoopExit
    \/ LoopConnect
    \/ SleepDone
    \/ AuthDialOk
    \/ AuthDialTimeout
    \/ AuthDialError
    \/ AuthChallengeOk
    \/ AuthChallengeErr
    \/ \E resp \in TokenResponses({"t1"}, FreshExpiries(utc)) : AuthTokensOk(resp)
    \/ AuthTokensErr
    \/ AuthTimeout
    \/ RelayerDialOk
    \/ RelayerDialTimeout
    \/ RelayerDialError
    \/ \E cfg \in OneSocketConfigs : GetTpuConfigsOk(cfg)
    \/ GetTpuConfigsErr
    \/ SubscribeOk
    \/ SubscribeErr
    \/ ConsumerExit
    \/ ConsumerSelect
    \/ StreamDisconnected
    \/ HeartbeatTick
    \/ MetricsTick
    \/ MaintenanceTick
    \/ MaybeRefreshAuthTokens
    \/ MaintChallengeOk
    \/ MaintChallengeErr
    \/ \E resp \in TokenResponses({"t2"}, LongExpiry(utc)) : MaintTokensOk(resp)
    \/ MaintTokensErr
    \/ \E tok \in TokenCandidates({"t2"}, LongExpiry(utc)) : MaintRefreshOk(tok)
    \/ MaintRefreshErr

ShutdownNext ==
    \/ TaskStep
    \/ Tick
    \/ SetExit(TRUE)

ShutdownSpec ==
    ShutdownInit /\ [][ShutdownNext]_vars /\ WF_vars(TaskStep) /\ WF_vars(Tick)

\* C12: the flag is read at the top of the supervisor loop and at the top of the
\* consumer loop; once it is set and stays set, the consumer loop returns, no new
\* connection attempt is started and the supervisor loop ends.
C12_CooperativeShutdown ==
    /\ exit ~> (pc = "done")
    /\ [][exit =>
             /\ ~(pc = "loop" /\ pc' = "dial_auth")
             /\ pc = "loop" => pc' \in {"loop", "done"}
             /\ pc = "stream" => (pc' = "stream" \/ (pc' = "loop" /\ ret' = "Ok"))]_vars

\* The consumer loop returned on the flag and the supervisor loop ended.
C12_Witness == pc = "done" /\ exit /\ ret = "Ok" /\ streak = 0

----------------------------------------------------------------------------
(* InjectSpec: connection attempts one after the other with an auth service  *)
(* that issues any token string, and rotations inside the streaming loop.    *)
(* The interceptor runs inside the calls get_tpu_configs and                 *)
(* subscribe_packets, in the task that also rotates the credentials; both    *)
(* take the mutex of the shared cell for one read or one write.              *)

IssuedStrings == TokenValues \cup {HeaderUnsafeValue}

InjectInit ==
    /\ StartUp
    /\ trust_packets = FALSE
    /\ fault = "auth"

InjectNext ==
    \/ LoopConnect
    \/ SleepDone
    \/ AuthDialOk
    \/ AuthChallengeOk
    \/ \E resp \in TokenResponses(IssuedStrings, FreshExpiries(utc)) : AuthTokensOk(resp)
    \/ RelayerDialOk
    \/ \E cfg \in OneSocketConfigs : GetTpuConfigsOk(cfg)
    \/ SubscribeOk
    \/ ConsumerSelect
    \/ StreamDisconnected
    \/ MaintenanceTick
    \/ MaybeRefreshAuthTokens
    \/ MaintChallengeOk
    \/ \E resp \in TokenResponses(IssuedStrings, LongExpiry(utc)) : MaintTokensOk(resp)
    \/ \E tok \in TokenCandidates(IssuedStrings, LongExpiry(utc)) : MaintRefreshOk(tok)
    \/ Tick

InjectSpec == InjectInit /\ [][InjectNext]_vars

----------------------------------------------------------------------------
(* StatsSpec: one connection in its streaming loop with every kind of        *)
(* message, metrics ticks and rotations.                                     *)

StatsInit ==
    /\ fault = "relayer"
    /\ \E access \in {SoonExpiry, FarExpiry}, refresh \in {SoonExpiry, FarExpiry} :
           Streamed(access, refresh, 0, FALSE)

StatsNext ==
    \/ ConsumerSelect
    \/ RecvEmpty
    \/ RecvBatch
    \/ RecvHeartbeat
    \/ MetricsTick
    \/ MaintenanceTick
    \/ MaybeRefreshAuthTokens
    \/ MaintChallengeOk
    \/ \E resp \in TokenResponses({"t2"}, LongExpiry(utc)) : MaintTokensOk(resp)
    \/ \E tok \in TokenCandidates({"t2"}, LongExpiry(utc)) : MaintRefreshOk(tok)
    \/ Tick
    \/ \E msg \in Messages : RelayerSend(msg)
    \/ \E sink \in {"heartbeat_tx", "packet_tx"} : Drain(sink)

StatsSpec == StatsInit /\ [][StatsNext]_vars

\* A message was taken from the stream and the loop went on.
MessageTaken ==
    /\ pc = "select"
    /\ pc' = "stream"
    /\ packet_stream # <<>>
    /\ packet_stream' = Tail(packet_stream)

\* The counters after one more message `msg`, on counters that stop at MaxStat.
Counted(stats, msg) ==
    [num_empty_messages |->
         Min(stats.num_empty_messages + (IF msg.kind = "empty" THEN 1 ELSE 0), MaxStat),
     num_packets |->
         Min(stats.num_packets + (IF msg.kind = "batch" THEN msg.len ELSE 0), MaxStat),
     num_heartbeats |->
         Min(stats.num_heartbeats + (IF msg.kind = "heartbeat" THEN 1 ELSE 0), MaxStat)]

\* C14 as stated: a metrics tick resets the five counters, the full refreshes and
\* the access-token refreshes included.
C14_AllCountersReset ==
    [][MetricsTick =>
           /\ relayer_stats' = ZeroStats
           /\ num_full_refreshes' = 0
           /\ num_refresh_access_token' = 0]_vars

\* C14, amended: a metrics tick resets the three counters of RelayerStageStats
\* (empty messages, packets, heartbeats) and leaves the two rotation counts as they
\* are; between two metrics ticks each message adds to its counter, a batch adding
\* its number of packets, and nothing else changes the three counters.
C14_StatsPerInterval ==
    [][/\ MetricsTick =>
              /\ relayer_stats' = ZeroStats
              /\ num_full_refreshes' = num_full_refreshes
              /\ num_refresh_access_token' = num_refresh_access_token
       /\ MessageTaken => relayer_stats' = Counted(relayer_stats, Head(packet_stream))
       /\ (Streaming' /\ ~MessageTaken /\ ~MetricsTick) =>
              relayer_stats' = relayer_stats]_vars

\* A metrics tick has reset the counters of a heartbeat and of a batch, after a full
\* re-handshake whose count it kept.
C14_Witness ==
    /\ pc = "stream"
    /\ metrics_timer = METRICS_TICK
    /\ relayer_stats = ZeroStats
    /\ num_full_refreshes = 1
    /\ heartbeat_tx # <<>>
    /\ packet_tx = <<[batch |-> MaxBatchLen]>>

----------------------------------------------------------------------------
(* HeartbeatSpec: connections one after the other to a relayer that          *)
(* advertises any socket pair and sends heartbeats.                          *)

HeartbeatInit ==
    /\ StartUp
    /\ trust_packets = FALSE
    /\ fault = "relayer"

HeartbeatNext ==
    \/ LoopConnect
    \/ SleepDone
    \/ AuthDialOk
    \/ AuthChallengeOk
    \/ \E resp \in TokenResponses({"t1"}, LongExpiry(utc)) : AuthTokensOk(resp)
    \/ RelayerDialOk
    \/ \E cfg \in TpuConfigs : GetTpuConfigsOk(cfg)
    \/ SubscribeOk
    \/ ConsumerSelect
    \/ RecvHeartbeat
    \/ StreamDisconnected
    \/ RelayerSend(Heartbeat)
    \/ Drain("heartbeat_tx")

HeartbeatSpec == HeartbeatInit /\ [][HeartbeatNext]_vars

\* The socket pair a GetTpuConfigs response resolves to: the two addresses with the
\* ports as u16.
ResolvedPair(cfg) ==
    <<[ip |-> cfg.tpu[1].ip, port |-> cfg.tpu[1].port % U16Modulus],
      [ip |-> cfg.tpu_forward[1].ip, port |-> cfg.tpu_forward[1].port % U16Modulus]>>

\* A heartbeat was taken from the stream and the loop went on.
HeartbeatTaken ==
    /\ pc = "select"
    /\ pc' = "stream"
    /\ packet_stream # <<>>
    /\ Head(packet_stream).kind = "heartbeat"
    /\ packet_stream' = Tail(packet_stream)

\* C15: the heartbeat sink gets one message per heartbeat received and nothing
\* else; each carries the socket pair resolved from GetTpuConfigs when the
\* connection began, which stays the same while the connection streams and is
\* resolved again by every new connection.
C15_HeartbeatEventConsistency ==
    [][/\ HeartbeatTaken => heartbeat_tx' = Append(heartbeat_tx, heartbeat_event[1])
       /\ Len(heartbeat_tx') > Len(heartbeat_tx) => HeartbeatTaken
       /\ (Streaming /\ Streaming') =>
              (heartbeat_event' = heartbeat_event /\ heartbeat_event # None)
       /\ \A cfg \in TpuConfigs :
              (GetTpuConfigsOk(cfg) /\ pc' = "subscribe_packets") =>
                  heartbeat_event' = Some(ResolvedPair(cfg))]_vars

\* A second connection forwarded a heartbeat with the pair it resolved.
C15_Witness ==
    /\ pc = "stream"
    /\ streak >= 1
    /\ heartbeat_event = Some(<<[ip |-> 1, port |-> 2], [ip |-> 1, port |-> 1]>>)
    /\ heartbeat_tx = <<heartbeat_event[1]>>

----------------------------------------------------------------------------
(* Validation of what the auth service sends, under InjectSpec.              *)

\* A candidate that is there and carries an expiry.
WellFormed(candidate) == candidate # None /\ candidate[1].expires_at_utc # None

\* C16: get_validated_token fails with BadAuthenticationToken on a candidate that
\* is absent or has no expiry and returns every other candidate as it is; the
\* handshake applies it to both tokens and the refresh to its token, so a response
\* with an invalid candidate is an error and installs nothing.
C16_CredentialValidation ==
    [][/\ \A c \in TokenCandidates(IssuedStrings, FreshExpiries(utc)) :
              GetValidatedToken(c) =
                  IF WellFormed(c) THEN Ok(c[1]) ELSE Err("BadAuthenticationToken")
       /\ \A resp \in TokenResponses(IssuedStrings, FreshExpiries(utc)) :
              (AuthTokensOk(resp) \/ MaintTokensOk(resp)) =>
                  IF WellFormed(resp.access_token) /\ WellFormed(resp.refresh_token)
                  THEN /\ access_token' = resp.access_token[1]
                       /\ refresh_token' = resp.refresh_token[1]
                       /\ ret' = "none"
                  ELSE /\ ret' = "BadAuthenticationToken"
                       /\ pc' = "sleep"
                       /\ access_token' = NoToken
                       /\ refresh_token' = NoToken
       /\ \A c \in TokenCandidates(IssuedStrings, FreshExpiries(utc)) :
              MaintRefreshOk(c) =>
                  IF WellFormed(c)
                  THEN access_token' = c[1] /\ ret' = "none"
                  ELSE /\ ret' = "BadAuthenticationToken"
                       /\ pc' = "sleep"
                       /\ access_token' = NoToken]_vars

\* A first handshake was answered with an invalid candidate.
C16_Witness ==
    /\ pc = "sleep"
    /\ ret = "BadAuthenticationToken"
    /\ streak = 1
    /\ access_token = NoToken
    /\ refresh_token = NoToken

----------------------------------------------------------------------------
(* TimelySpec: one connection in its streaming loop with an auth service     *)
(* that answers every call within the time unit (a quarter of the interval)  *)
(* and issues tokens that live longer than the lookahead.  Both clocks       *)
(* advance together and a maintenance tick is serviced the moment it is due, *)
(* so that ticks are one interval apart.                                     *)

\* The wall-clock seconds TimelySpec covers: the ticks at 0, 1 and 2 intervals.
Horizon == 2 * MAINTENANCE_TICK + 1

\* Lifetimes longer than the lookahead: the shortest two, and one that outlives
\* the tick after the next.
LongLifetimes ==
    {AUTH_REFRESH_LOOKAHEAD + 1, AUTH_REFRESH_LOOKAHEAD + 2,
     AUTH_REFRESH_LOOKAHEAD + MAINTENANCE_TICK + 1}
IssuedAt(t) == {t + d : d \in LongLifetimes}

TimelyInit ==
    /\ fault = "auth"
    /\ \E a \in IssuedAt(0), r \in IssuedAt(0) :
           Streamed(Token("t1", Some(a)), Token("t1", Some(r)), 0, FALSE)

\* One unit of time passes on the monotonic and on the wall clock, between two
\* iterations of the loop and with no maintenance tick due.
TimePasses ==
    /\ pc \in {"stream", "select"}
    /\ maintenance_timer > 0
    /\ utc < Horizon
    /\ utc' = utc + 1
    /\ since_heartbeat' = Min(since_heartbeat + 1, OldestAllowedHeartbeat + 1)
    /\ heartbeat_timer' = Max(heartbeat_timer - 1, 0)
    /\ metrics_timer' = Max(metrics_timer - 1, 0)
    /\ maintenance_timer' = Max(maintenance_timer - 1, 0)
    /\ UNCHANGED <<supVars, cfgVars, authVars, heartbeat_event, packet_stream,
                   relayer_stats, sinkVars>>

TimelyNext ==
    \/ ConsumerSelect
    \/ MaintenanceTick
    \/ MaybeRefreshAuthTokens
    \/ MaintChallengeOk
    \/ \E a \in IssuedAt(utc), r \in IssuedAt(utc) :
           MaintTokensOk([access_token |-> Some(Token("t2", Some(a))),
                          refresh_token |-> Some(Token("t2", Some(r)))])
    \/ \E a \in IssuedAt(utc) : MaintRefreshOk(Some(Token("t2", Some(a))))
    \/ TimePasses

TimelySpec == TimelyInit /\ [][TimelyNext]_vars

LightRefreshDone == pc = "maint_refresh" /\ pc' = "stream"
FullReauthDone == pc = "maint_tokens" /\ pc' = "stream"

\* Every credential a rotation replaces has at least m units left.
MarginAtRotation(m) ==
    /\ LightRefreshDone => Remaining(access_token, utc) >= m
    /\ FullReauthDone => /\ Remaining(access_token, utc) >= m
                         /\ Remaining(refresh_token, utc) >= m

\* C17 as stated: every rotation completes at least one full maintenance interval
\* before the expiry of the credential it replaces.
C17_FullIntervalMargin == [][MarginAtRotation(MAINTENANCE_TICK)]_vars

\* C17: a rotation happens at the first tick at which the credential that triggers
\* it has no more than the lookahead left, and every credential it replaces is
\* unexpired and has more than (lookahead - interval), a quarter interval, left.
C17_QuarterIntervalMargin ==
    [][/\ MarginAtRotation(1)
       /\ MarginAtRotation(AUTH_REFRESH_LOOKAHEAD - MAINTENANCE_TICK + 1)
       /\ LightRefreshDone => Remaining(access_token, utc) <= AUTH_REFRESH_LOOKAHEAD
       /\ FullReauthDone => Remaining(refresh_token, utc) <= AUTH_REFRESH_LOOKAHEAD]_vars

\* The tick one interval after the start has replaced the access token of the
\* handshake, which the tick at the start had left alone.
C17_Witness ==
    /\ pc = "stream"
    /\ num_refresh_access_token = 1
    /\ num_full_refreshes = 0
    /\ utc = MAINTENANCE_TICK
    /\ access_token.value = "t2"
    /\ refresh_token.value = "t1"
    /\ Remaining(access_token, utc) > AUTH_REFRESH_LOOKAHEAD

----------------------------------------------------------------------------
(* Sends to a receiver that is gone, under Spec.                             *)

\* The message arm of select! runs for a message whose destination is closed.
BatchForClosedSink == RecvBatch /\ BatchSink(trust_packets) \notin rx_open
HeartbeatForClosedSink == RecvHeartbeat /\ "heartbeat_tx" \notin rx_open

\* The connection is over with error e, nothing was sent, the supervisor backs off.
EndsWith(e) ==
    /\ ret' = e
    /\ pc' = "sleep"
    /\ backoff_sec' = NextBackoff(backoff_sec)
    /\ packet_stream' = <<>>
    /\ heartbeat_event' = None
    /\ UNCHANGED sinkVars

SinkErrors == {"PacketForwardError", "HeartbeatChannelError"}

\* C18: a batch whose sink is closed ends the connection with PacketForwardError, a
\* heartbeat whose channel is closed with HeartbeatChannelError; nothing is sent a
\* second time or anywhere else, the rest of the stream is dropped with the
\* connection, and the supervisor sleeps and then connects again unless told to exit.
C18_ClosedSinkIsFatal ==
    [][/\ BatchForClosedSink =>
              EndsWith("PacketForwardError")
       /\ HeartbeatForClosedSink =>
              EndsWith("HeartbeatChannelError")
       /\ (ret' \in SinkErrors /\ ret' # ret) =>
              \/ BatchForClosedSink
              \/ HeartbeatForClosedSink
       /\ (ret \in SinkErrors /\ pc = "sleep" /\ pc' # pc) =>
              pc' = "loop" /\ ret' = ret
       /\ (ret \in SinkErrors /\ pc = "loop" /\ pc' # pc) =>
              IF exit THEN pc' = "done" ELSE pc' = "dial_auth"]_vars

\* A batch for the closed verified-packet sink has ended a connection and the sleep
\* is over.
C18_Witness ==
    /\ pc = "loop"
    /\ ~exit
    /\ ret = "PacketForwardError"
    /\ trust_packets
    /\ "verified_packet_tx" \notin rx_open
    /\ verified_packet_tx = <<>>
    /\ streak = 1

----------------------------------------------------------------------------
(* The order of the steps of a connection attempt, under Spec.               *)

\* The awaits of connect_auth_and_stream and start_consuming_relayer_packets, in
\* the order of the code.
SetupSteps == <<"dial_auth", "auth_challenge", "auth_tokens", "dial_relayer",
                "get_tpu_configs", "subscribe_packets">>
StepAfter(p) ==
    IF p = SetupSteps[Len(SetupSteps)] THEN "stream"
    ELSE SetupSteps[(CHOOSE i \in 1 .. Len(SetupSteps) : SetupSteps[i] = p) + 1]
InSetup(p) == \E i \in 1 .. Len(SetupSteps) : SetupSteps[i] = p

\* The positions at which GetTpuConfigs, or SubscribePackets after it, has been sent.
RelayerCalled == pc \in {"get_tpu_configs", "subscribe_packets"} \/ Streaming

SinkGrows ==
    \/ Len(heartbeat_tx') > Len(heartbeat_tx)
    \/ Len(packet_tx') > Len(packet_tx)
    \/ Len(verified_packet_tx') > Len(verified_packet_tx)

\* C19: an attempt goes through its steps in the order of the code, each once:
\* a relayer call is sent only after the handshake has installed a validated access
\* token, and carries it; GetTpuConfigs comes once, from the relayer dial, and
\* SubscribePackets only from its answer; a sink receives something only in the
\* streaming loop, which is entered only from the answer of SubscribePackets; and a
\* step that fails ends the attempt there.
C19_StepOrdering ==
    [][/\ (InSetup(pc) /\ pc' # pc) =>
              \/ pc' = StepAfter(pc) /\ ret' = "none"
              \/ pc' = "sleep" /\ ret' \in ErrorKinds /\ authorization' = None
              \/ pc' = "panicked" /\ pc \in {"dial_relayer", "get_tpu_configs"}
       /\ (InSetup(pc') /\ pc' # pc) =>
              IF pc' = SetupSteps[1] THEN pc = "loop" ELSE InSetup(pc) /\ pc' = StepAfter(pc)
       /\ (Streaming' /\ ~Streaming) => pc = "subscribe_packets"
       /\ (Streaming /\ ~Streaming') => pc' \in {"sleep", "loop", "panicked"}
       /\ RelayerCalled =>
              /\ access_token # NoToken
              /\ access_token.expires_at_utc # None
       /\ (RelayerCalled' /\ InSetup(pc') /\ pc' # pc) =>
              /\ access_token' = access_token
              /\ authorization' =
                     Some([scheme |-> "Bearer", token |-> access_token.value])
       /\ ~RelayerCalled => authorization = None
       /\ SinkGrows => pc = "select" /\ heartbeat_event # None]_vars

\* After a failed attempt a second one went through every step and forwarded a
\* heartbeat.
C19_Witness ==
    /\ pc = "stream"
    /\ streak = 1
    /\ ret = "none"
    /\ heartbeat_tx # <<>>
    /\ access_token # NoToken
    /\ authorization = Some([scheme |-> "Bearer", token |-> access_token.value])

----------------------------------------------------------------------------
(* The age of the credentials in the streaming loop, under TimelySpec.       *)

\* C20: with ticks one interval apart, rotations that succeed and issued lifetimes
\* longer than the lookahead, the shared access token is unexpired at every instant
\* of the streaming loop, and the refresh token is unexpired whenever a lightweight
\* refresh sends it.
C20_AccessStaysFresh ==
    /\ Streaming => TokenExpiry(access_token) > NowU64(utc)
    /\ pc = "maint_refresh" => TokenExpiry(refresh_token) > NowU64(utc)

\* Two intervals after the start, past the expiry of the first access token, a
\* lightweight refresh is sent for the second one with the second refresh token.
C20_Witness ==
    /\ pc = "maint_refresh"
    /\ utc = 2 * MAINTENANCE_TICK
    /\ utc > AUTH_REFRESH_LOOKAHEAD + 2
    /\ num_full_refreshes = 1
    /\ access_token.value = "t2"
    /\ Remaining(access_token, utc) \in 1 .. AUTH_REFRESH_LOOKAHEAD
    /\ Remaining(refresh_token, utc) > AUTH_REFRESH_LOOKAHEAD

----------------------------------------------------------------------------
(* RotationSpec: one connection in its streaming loop, the auth service      *)
(* answering or rejecting each call of a rotation.  The error return of      *)
(* maybe_refresh_auth_tokens is a step of its own here: `?` hands the error  *)
(* to consume_packet_stream while the locals of the connection still exist,  *)
(* and the `?` of the maintenance arm returns it to the supervisor.          *)

RotationCalls == {"maint_challenge", "maint_tokens", "maint_refresh"}

\* maybe_refresh_auth_tokens returns Err(e) from one of its `?`.
RotationReturnsErr(e) ==
    /\ pc' = "maint_err"
    /\ ret' = e
    /\ UNCHANGED <<exit, backoff_sec, streak, had_ok, cfgVars, authVars, loopVars, utc,
                   sinkVars>>

\* An RPC of the rotation is rejected: map_err(AuthenticationError)?.
RotationRpcRejected ==
    /\ pc \in RotationCalls
    /\ RotationReturnsErr("AuthenticationError")

\* Variant: the access token of the response is installed before the refresh
\* token is validated.
MaintTokensInvalidKeepsAccess(resp) ==
    /\ pc = "maint_tokens"
    /\ ValidatedPair(resp).err # ""
    /\ pc' = "maint_err"
    /\ ret' = ValidatedPair(resp).err
    /\ access_token' =
           IF GetValidatedToken(resp.access_token).err = ""
           THEN resp.access_token[1] ELSE access_token
    /\ UNCHANGED <<exit, backoff_sec, streak, had_ok, cfgVars, keypair, kp, authorization,
                   refresh_token, num_full_refreshes, num_refresh_access_token, loopVars,
                   utc, sinkVars>>

\* generate_auth_tokens answers with a candidate that get_validated_token refuses.
MaintTokensInvalid(resp) ==
    /\ pc = "maint_tokens"
    /\ ValidatedPair(resp).err # ""
    /\ RotationReturnsErr(ValidatedPair(resp).err)

\* refresh_access_token answers with a candidate that get_validated_token refuses.
MaintRefreshInvalid(maybe_token) ==
    /\ pc = "maint_refresh"
    /\ GetValidatedToken(maybe_token).err # ""
    /\ RotationReturnsErr(GetValidatedToken(maybe_token).err)

\* The answers that pass the validation.
MaintTokensValid(resp) == ValidatedPair(resp).err = "" /\ MaintTokensOk(resp)
MaintRefreshValid(maybe_token) ==
    GetValidatedToken(maybe_token).err = "" /\ MaintRefreshOk(maybe_token)

\* maybe_refresh_auth_tokens(..).await?: the error ends the connection.
RotationErrPropagates ==
    /\ pc = "maint_err"
    /\ ReturnErr(ret)

RotationInit ==
    /\ fault = "auth"
    /\ \E a \in FreshExpiries(0), r \in FreshExpiries(0) :
           Streamed(Token("t1", Some(a)), Token("t1", Some(r)), 0, FALSE)

RotationNext ==
    \/ ConsumerSelect
    \/ MaintenanceTick
    \/ MaybeRefreshAuthTokens
    \/ MaintChallengeOk
    \/ RotationRpcRejected
    \/ \E resp \in TokenResponses({"t2"}, FreshExpiries(utc)) : MaintTokensValid(resp)
    \/ \E resp \in TokenResponses({"t2"}, FreshExpiries(utc)) : MaintTokensInvalid(resp)
    \/ \E tok \in TokenCandidates({"t2"}, FreshExpiries(utc)) : MaintRefreshValid(tok)
    \/ \E tok \in TokenCandidates({"t2"}, FreshExpiries(utc)) : MaintRefreshInvalid(tok)
    \/ RotationErrPropagates
    \/ WallTick
    \/ Tick

RotationSpec == RotationInit /\ [][RotationNext]_vars

InRotation == pc = "maintenance" \/ pc \in RotationCalls

\* C21: from the maintenance tick to the failure of its rotation the access token,
\* the refresh token and the two rotation counts keep their values, the failure is
\* AuthenticationError or BadAuthenticationToken and ends the connection; and a
\* full re-handshake replaces the two tokens together or neither.
C21_FailedRotationChangesNothing ==
    [][/\ (InRotation /\ pc' # "stream") =>
              UNCHANGED <<access_token, refresh_token, num_full_refreshes,
                          num_refresh_access_token>>
       /\ (InRotation /\ pc' = "maint_err") =>
              ret' \in {"AuthenticationError", "BadAuthenticationToken"}
       /\ (pc = "maint_err" /\ pc' # pc) =>
              pc' = "sleep" /\ ret' = ret /\ packet_stream' = <<>>
       /\ (pc = "maint_tokens" /\ pc' = "stream") =>
              /\ Some(access_token') \in TokenCandidates({"t2"}, FreshExpiries(utc))
              /\ Some(refresh_token') \in TokenCandidates({"t2"}, FreshExpiries(utc))
              /\ access_token'.expires_at_utc # None
              /\ refresh_token'.expires_at_utc # None
              /\ num_full_refreshes' = num_full_refreshes + 1
       /\ (pc = "maint_tokens" /\ pc' # "stream") =>
              UNCHANGED <<access_token, refresh_token>>]_vars

\* A full re-handshake was answered with a valid access token and no refresh token:
\* the tokens of the connection are still those of its start.
C21_Witness ==
    /\ pc = "maint_err"
    /\ ret = "BadAuthenticationToken"
    /\ kp = cluster_id
    /\ access_token.value = "t1"
    /\ refresh_token.value = "t1"
    /\ num_full_refreshes = 0

----------------------------------------------------------------------------
(* The keypair of a full re-handshake, under AuthSpec.                       *)

\* C22: the keypair that signs the challenge of a full re-handshake is the one the
\* connection was established with, whenever the identity of the validator is
\* rotated.
C22_ReauthIdentity ==
    pc \in {"maint_challenge", "maint_tokens"} => kp = keypair

----------------------------------------------------------------------------
(* What a connection attempt returns, under Spec.                            *)

\* A position inside connect_auth_and_stream.
InAttempt == InSetup(pc) \/ Streaming

\* C23: an attempt returns Ok only from the top of the consumer loop with the exit
\* flag set; with the flag unset every return is an error and goes to the sleep, the
\* backoff never decreases, and at 10 seconds it stays at 10 seconds through every
\* later failure, whether the connection streamed before it failed or not.
C23_SuccessMeansShutdown ==
    [][/\ (ret' = "Ok" /\ InAttempt) => (pc = "stream" /\ exit /\ pc' = "loop")
       /\ (InAttempt /\ ~InAttempt' /\ ~exit) =>
              \/ pc' = "sleep" /\ ret' \in ErrorKinds
              \/ pc' = "panicked"
       /\ backoff_sec' < backoff_sec => (exit /\ pc = "stream")
       /\ (InAttempt /\ pc' = "sleep" /\ backoff_sec = MAX_BACKOFF_S) =>
              backoff_sec' = MAX_BACKOFF_S]_vars

\* A connection that streamed and forwarded a heartbeat lost its stream with the
\* flag unset, after more failures than the cap: the sleep is 10 seconds.
C23_Witness ==
    /\ pc = "sleep"
    /\ ~exit
    /\ ~had_ok
    /\ ret = "GrpcStreamDisconnected"
    /\ heartbeat_tx # <<>>
    /\ streak > MAX_BACKOFF_S
    /\ backoff_sec = MAX_BACKOFF_S

----------------------------------------------------------------------------
(* The refresh decision on expired credentials, under AuthSpec.              *)

\* The expiry of the token, in signed seconds, is not later than the wall clock.
Expired(token) ==
    token.expires_at_utc = None \/ token.expires_at_utc[1] <= utc

\* C24: whatever the expiry of an expired credential (zero, missing or negative
\* seconds), an expired refresh token gives the full re-handshake and an expired
\* access token never gives 'no rotation'.
C24_ExpiredAlwaysRotates ==
    [][(pc = "maintenance" /\ pc' # pc) =>
           /\ Expired(refresh_token) => pc' = "maint_challenge"
           /\ Expired(access_token) => pc' \in {"maint_challenge", "maint_refresh"}]_vars

----------------------------------------------------------------------------
(* FeedSpec: one connection in its streaming loop with credentials that need *)
(* no rotation.  In the runs with fault = "relayer" the relayer sends every  *)
(* kind of message; in the runs with fault = "clock" it sends batches and    *)
(* empty messages and never a heartbeat.  Time passes, the loop runs, and    *)
(* select! takes a ready branch at random, so that a tick that is due again  *)
(* and again is serviced.                                                    *)

FeedInit ==
    /\ fault \in {"relayer", "clock"}
    /\ \E trust \in BOOLEAN : Streamed(FarExpiry, FarExpiry, 0, trust)

FeedMessages == IF fault = "clock" THEN {Empty, Batch(1)} ELSE Messages

FeedNext ==
    \/ ConsumerSelect
    \/ RecvEmpty
    \/ RecvBatch
    \/ RecvHeartbeat
    \/ HeartbeatTick
    \/ MetricsTick
    \/ MaintenanceTick
    \/ MaybeRefreshAuthTokens
    \/ Tick
    \/ \E msg \in FeedMessages : RelayerSend(msg)
    \/ \E sink \in Sinks : Drain(sink)

FeedSpec ==
    /\ FeedInit
    /\ [][FeedNext]_vars
    /\ WF_vars(Tick)
    /\ WF_vars(ConsumerSelect)
    /\ WF_vars(MaybeRefreshAuthTokens)
    /\ SF_vars(HeartbeatTick)

\* A message that is no heartbeat was taken from the stream and the loop went on.
OtherMessageTaken == MessageTaken /\ Head(packet_stream).kind \in {"batch", "empty"}

\* C25: the time since the last heartbeat is set back by a received heartbeat
\* alone: a batch, an empty message, a metrics tick and a maintenance tick leave
\* it as it is, and a relayer that sends packets and no heartbeat is abandoned
\* with HeartbeatExpired.  An empty message adds one to its counter, changes
\* nothing else and is no error.
C25_OnlyHeartbeatsFeedWatchdog ==
    /\ (fault = "clock") ~> (pc = "sleep" /\ ret = "HeartbeatExpired")
    /\ [][/\ (since_heartbeat' < since_heartbeat /\ Streaming') => HeartbeatTaken
          /\ OtherMessageTaken => since_heartbeat' = since_heartbeat
          /\ (pc = "select" /\ pc' \in {"stream", "maintenance"} /\ ~MessageTaken) =>
                 since_heartbeat' = since_heartbeat
          /\ (pc = "maintenance" /\ pc' # pc) => since_heartbeat' = since_heartbeat
          /\ (MessageTaken /\ Head(packet_stream).kind = "empty") =>
                 /\ relayer_stats' = Counted(relayer_stats, Head(packet_stream))
                 /\ ret' = ret
                 /\ UNCHANGED <<exit, backoff_sec, streak, had_ok, cfgVars, authVars,
                                heartbeat_event, since_heartbeat, heartbeat_timer,
                                metrics_timer, maintenance_timer, utc, sinkVars>>
          /\ (pc = "select" /\ packet_stream # <<>> /\ pc' = "sleep"
                /\ Head(packet_stream).kind = "empty") =>
                 ret' \in {"HeartbeatExpired", IdentityChanged}]_vars

\* A connection on which a batch was forwarded and no heartbeat received has ended
\* with HeartbeatExpired.
C25_Witness ==
    /\ fault = "clock"
    /\ pc = "sleep"
    /\ ret = "HeartbeatExpired"
    /\ ~trust_packets
    /\ packet_tx # <<>>
    /\ heartbeat_tx = <<>>

====
